---- MODULE Spec2Model ----
(***************************************************************************)
(* Model of the typst-mdx converter:                                       *)
(*  - the page-tree flattener, the document assembler with its output      *)
(*    layout and the root-then-worker-pool driver, and the renderers of    *)
(*    func, group and type bodies (scripts/parser/mdx_converter.py);       *)
(*  - the HTML rewriter and its escaping (scripts/parser/html_to_mdx.py);  *)
(*  - the command lines scripts/parse_docs.py and scripts/fetch_json.py.   *)
(*                                                                         *)
(* Strings are sequences of tokens.  The token "/" is the path separator;  *)
(* every other token ("a", "index", ".mdx", ...) is a run of characters    *)
(* holding no separator.  A filesystem path below the output directory is  *)
(* the sequence of its components, each component a string.                *)
(***************************************************************************)
EXTENDS Integers, Sequences, FiniteSets, TLC

VARIABLES
    json_data,        \* the parsed export: a sequence of top-level page trees
    pc,               \* position of generate_mdx_docs
    raisedAt,         \* where generate_mdx_docs raised ("" while it has not)
    full_pages_list,  \* the flattened list (the root is removed once written)
    root_page,        \* <<p>> for the root record found, <<>> for None
    files,            \* output directory: path -> content
    rootWrites,       \* paths written by generate_mdx_docs itself
    tasks,            \* one record per entry of full_pages_list (worker side)
    nsub,             \* number of pages submitted so far
    errors,           \* error records logged by the collecting loop
    summary,          \* <<line>> once the closing success line is logged
    ioFaults,         \* I/O failures the environment has produced so far
    html_content,     \* the parsed fragment handed to html_to_mdx
    mdx_output,       \* what html_to_mdx returned
    hpc,              \* position of the rewriter run
    esc_text,         \* the string handed to escape_mdx_text
    escaped,          \* <<s>> once escape_mdx_text has returned s
    body_node,        \* <<b>>: the body node handed to render_body
    rendered,         \* <<markup>> once render_body has returned
    data_dir,         \* parse_docs: <<files>> of --data-dir, <<>> when it is absent
    args,             \* parse_docs: the parsed command line
    target_versions,  \* parse_docs: the versions main loops over
    vi,               \* parse_docs: index of the next version of the loop
    outcomes,         \* parse_docs: how build_docs_for_version ended, per call
    out_dirs,         \* parse_docs: the version directories below --output-dir
    generated,        \* parse_docs: the versions generate_mdx_docs wrote pages for
    ppc,              \* parse_docs: position of main
    exit_code,        \* parse_docs: <<status>> once the process has ended
    f_args,           \* fetch_json: the parsed command line
    typst_versions,   \* fetch_json: the tags get_typst_tags found, in order
    json_exists,      \* fetch_json: the versions whose docs_<version>.json exists
    assets_exist,     \* fetch_json: the versions whose assets directory exists
    selected,         \* fetch_json: json_targets before the filter
    json_targets,     \* fetch_json: json_targets after the filter
    fi,               \* fetch_json: index of the next ref of the loop
    results,          \* fetch_json: what build_json_for_ref returned, per call
    fpc,              \* fetch_json: position of main
    f_exit,           \* fetch_json: <<status>> once the process has ended
    bpc,              \* build_json_for_ref: position
    toolchains,       \* the toolchains rustup has installed
    toolchain_was_installed,
    installed_by_us,
    pending,          \* build_json_for_ref: how the try block was left
    system_failed,    \* build_json_for_ref: the system build has failed
    tc_before,        \* the installed toolchains when the call began
    rustup_log,       \* what the call did with the pinned toolchain so far
    rustup_faults,    \* rustup commands that have failed so far
    calls             \* one record per call of build_json_for_ref that ended

pipeVars == <<json_data, pc, raisedAt, full_pages_list, root_page, files,
              rootWrites, tasks, nsub, errors, summary, ioFaults>>

htmlVars == <<html_content, mdx_output, hpc>>

escVars == <<esc_text, escaped>>

\* the state of the components other than the pipeline and the rewriter
renderVars == <<body_node, rendered>>

parseVars == <<data_dir, args, target_versions, vi, outcomes, out_dirs, generated,
               ppc, exit_code>>

fetchMainVars == <<f_args, typst_versions, selected, json_targets, fi, results, fpc, f_exit>>

buildVars == <<json_exists, assets_exist, bpc, toolchains, toolchain_was_installed,
               installed_by_us, pending, system_failed, tc_before, rustup_log,
               rustup_faults, calls>>

fetchVars == <<fetchMainVars, buildVars>>

extVars == <<escVars, renderVars, parseVars, fetchVars>>

vars == <<pipeVars, htmlVars, extVars>>

\* escape_mdx_text has not been called
IdleEscape == esc_text = <<>> /\ escaped = <<>>

\* render_body has not been called
IdleRender == body_node = <<>> /\ rendered = <<>>

\* parse_docs.py has not been started
IdleParse ==
    /\ data_dir = <<>>
    /\ args = <<>>
    /\ target_versions = <<>>
    /\ vi = 0
    /\ outcomes = <<>>
    /\ out_dirs = {}
    /\ generated = {}
    /\ ppc = "idle"
    /\ exit_code = <<>>

\* fetch_json.py has not been started
IdleFetch ==
    /\ f_args = <<>>
    /\ typst_versions = <<>>
    /\ json_exists = {}
    /\ assets_exist = {}
    /\ selected = <<>>
    /\ json_targets = <<>>
    /\ fi = 0
    /\ results = <<>>
    /\ fpc = "idle"
    /\ f_exit = <<>>
    /\ bpc = "idle"
    /\ toolchains = {}
    /\ toolchain_was_installed = FALSE
    /\ installed_by_us = FALSE
    /\ pending = ""
    /\ system_failed = FALSE
    /\ tc_before = {}
    /\ rustup_log = <<>>
    /\ rustup_faults = 0
    /\ calls = <<>>

IdleExt == IdleEscape /\ IdleRender /\ IdleParse /\ IdleFetch

\* generate_mdx_docs has not been called
IdlePipeline ==
    /\ json_data = <<>>
    /\ pc = "idle"
    /\ raisedAt = ""
    /\ full_pages_list = <<>>
    /\ root_page = <<>>
    /\ files = <<>>
    /\ rootWrites = {}
    /\ tasks = <<>>
    /\ nsub = 0
    /\ errors = <<>>
    /\ summary = <<>>
    /\ ioFaults = 0

\* html_to_mdx has not been called
IdleHtml == html_content = <<>> /\ mdx_output = <<>> /\ hpc = "idle"

----------------------------------------------------------------------------
(* Bounds of the model *)

\* most pages below the root in an input tree
MaxPages == 2
\* most pages of an input whose body makes its renderer raise
MaxBadBodies == 1
\* most write failures the environment produces in one run
MaxIoFaults == 1

\* route segment names of the inputs
Names == {"a", "index"}

\* how the export writes a route: with or without surrounding separators
RouteStyles == [lead : BOOLEAN, trail : BOOLEAN]

\* where the root page sits in the export
RootModes == {"none", "first", "parent"}

----------------------------------------------------------------------------
(* str methods *)

RECURSIVE LStrip(_)
LStrip(s) == IF s # <<>> /\ Head(s) = "/" THEN LStrip(Tail(s)) ELSE s

RECURSIVE RStrip(_)
RStrip(s) ==
    IF s # <<>> /\ s[Len(s)] = "/" THEN RStrip(SubSeq(s, 1, Len(s) - 1)) ELSE s

\* route.strip("/")
strip(s) == RStrip(LStrip(s))

\* s.split("/"): the pieces between separators, empty pieces kept
RECURSIVE split(_)
split(s) ==
    IF \A i \in 1..Len(s) : s[i] # "/" THEN <<s>>
    ELSE LET i == CHOOSE k \in 1..Len(s) :
                      s[k] = "/" /\ \A j \in 1..(k - 1) : s[j] # "/"
         IN <<SubSeq(s, 1, i - 1)>> \o split(SubSeq(s, i + 1, Len(s)))

\* [...].split("/")[-2] raises IndexError on fewer than two pieces
ChildKeyRaises(route) == Len(split(route)) < 2

\* elem.get("route").split("/")[-2]
ChildKey(route) == LET p == split(route) IN p[Len(p) - 1]

----------------------------------------------------------------------------
(* pathlib *)

\* output_base_path / route: the components of a relative path, empty
\* components dropped
PathJoin(base, s) == base \o SelectSeq(split(s), LAMBDA c : c # <<>>)

\* folder / name
PathChild(folder, name) == Append(folder, name)

\* Path(str(folder) + suffix)
PathWithSuffix(folder, suffix) ==
    IF folder = <<>> THEN <<suffix>>
    ELSE [folder EXCEPT ![Len(folder)] = @ \o suffix]

\* folder.parent
PathParent(folder) ==
    IF folder = <<>> THEN <<>> ELSE SubSeq(folder, 1, Len(folder) - 1)

\* the directories mkdir(parents=True, exist_ok=True) ensures for folder
MkdirParents(folder) == {SubSeq(folder, 1, k) : k \in 1..Len(folder)}

INDEX_MDX == <<"index", ".mdx">>
META_JSON == <<"meta", ".json">>
MDX_SUFFIX == <<".mdx">>

----------------------------------------------------------------------------
(* The export: page trees as json.loads returns them.  A page is           *)
(* [title, route, body, children]; description and part are carried        *)
(* through unchanged by the converter and are left out.                    *)

\* a body is {kind, content}; content is held as the set of keys of its payload
HtmlBody == [kind |-> "html", content |-> {"html"}]
SymbolsBodyNoList == [kind |-> "symbols", content |-> {"details"}]

ROOT_TITLE == <<"Root">>

PageTitle(segs) == <<"T">> \o segs

RECURSIVE JoinSegs(_)
JoinSegs(segs) ==
    IF Len(segs) = 0 THEN <<>>
    ELSE IF Len(segs) = 1 THEN <<segs[1]>>
    ELSE <<segs[1], "/">> \o JoinSegs(Tail(segs))

RawRoute(segs, style) ==
    (IF style.lead THEN <<"/">> ELSE <<>>) \o JoinSegs(segs)
        \o (IF style.trail THEN <<"/">> ELSE <<>>)

RawRootRoute(style) == IF style.lead \/ style.trail THEN <<"/">> ELSE <<>>

DistinctSeqs(S) ==
    UNION {{s \in [1..n -> S] : \A i, j \in 1..n : i # j => s[i] # s[j]} :
              n \in 0..Cardinality(S)}

RECURSIVE SumLen(_, _)
SumLen(f, s) == IF s = <<>> THEN 0 ELSE Len(f[Head(s)]) + SumLen(f, Tail(s))

\* tree shapes: the top-level pages and, for each, its child pages
Shapes ==
    {sh \in [tops : DistinctSeqs(Names), kids : [Names -> DistinctSeqs(Names)]] :
        /\ \A n \in Names :
              (\A i \in 1..Len(sh.tops) : sh.tops[i] # n) => sh.kids[n] = <<>>
        /\ Len(sh.tops) + SumLen(sh.kids, sh.tops) <= MaxPages}

\* every title an export of the model can hold
AllTitles ==
    {ROOT_TITLE} \cup {PageTitle(<<n>>) : n \in Names}
        \cup {PageTitle(<<n, m>>) : n \in Names, m \in Names}

BodyOf(title, bad) == IF title \in bad THEN SymbolsBodyNoList ELSE HtmlBody

BuildNode(segs, style, bad, children) ==
    [title |-> PageTitle(segs), route |-> RawRoute(segs, style),
     body |-> BodyOf(PageTitle(segs), bad), children |-> children]

BuildRoot(style, bad, children) ==
    [title |-> ROOT_TITLE, route |-> RawRootRoute(style),
     body |-> BodyOf(ROOT_TITLE, bad), children |-> children]

BuildTops(sh, style, bad) ==
    [i \in 1..Len(sh.tops) |->
        BuildNode(<<sh.tops[i]>>, style, bad,
            [j \in 1..Len(sh.kids[sh.tops[i]]) |->
                BuildNode(<<sh.tops[i], sh.kids[sh.tops[i]][j]>>, style, bad, <<>>)])]

BuildExport(sh, style, mode, bad) ==
    IF mode = "none" THEN BuildTops(sh, style, bad)
    ELSE IF mode = "first"
         THEN <<BuildRoot(style, bad, <<>>)>> \o BuildTops(sh, style, bad)
         ELSE <<BuildRoot(style, bad, BuildTops(sh, style, bad))>>

Exports ==
    {BuildExport(sh, style, mode, bad) :
        sh \in Shapes, style \in RouteStyles, mode \in RootModes,
        bad \in {b \in SUBSET AllTitles : Cardinality(b) <= MaxBadBodies}}

----------------------------------------------------------------------------
(* Page-tree flattener *)

\* the record get_pages_recursive appends for one page
PageRecord(json) ==
    [title |-> json.title,
     route |-> IF json.route # <<>> THEN strip(json.route) ELSE json.route,
     body |-> json.body,
     has_children |-> json.children # <<>>,
     children_order |->
        [i \in 1..Len(json.children) |-> ChildKey(json.children[i].route)]]

\* The flattener on one tree, as a fold: acc is [raised, list].  The list
\* comprehension of children_order runs before the append, so an IndexError
\* leaves the page itself unrecorded.
RECURSIVE get_pages_recursive(_, _)
RECURSIVE FlattenAll(_, _)

\* a flattener that appends a page after its subtree
get_pages_postorder(json, acc) ==
    IF acc.raised THEN acc
    ELSE IF \E i \in 1..Len(json.children) : ChildKeyRaises(json.children[i].route)
         THEN [raised |-> TRUE, list |-> acc.list]
         ELSE LET sub == FlattenAll(json.children, acc)
              IN IF sub.raised THEN sub
                 ELSE [raised |-> FALSE, list |-> Append(sub.list, PageRecord(json))]

get_pages_recursive(json, acc) ==
    IF acc.raised THEN acc
    ELSE IF \E i \in 1..Len(json.children) : ChildKeyRaises(json.children[i].route)
         THEN [raised |-> TRUE, list |-> acc.list]
         ELSE FlattenAll(json.children,
                         [raised |-> FALSE, list |-> Append(acc.list, PageRecord(json))])

\* for item in items: get_pages_recursive(item, result_list)
FlattenAll(items, acc) ==
    IF items = <<>> THEN acc
    ELSE FlattenAll(Tail(items), get_pages_recursive(Head(items), acc))

\* next((p for p in full_pages_list if not p["route"]), None)
FindRoot(list) ==
    IF \E i \in 1..Len(list) : list[i].route = <<>>
    THEN <<list[CHOOSE i \in 1..Len(list) :
                    list[i].route = <<>> /\ \A j \in 1..(i - 1) : list[j].route # <<>>]>>
    ELSE <<>>

\* a driver that forgets to take the root out of the list
KeepRoot(list, p) == list

\* full_pages_list.remove(root_page): the first equal entry goes
RemoveRoot(list, p) ==
    IF \E i \in 1..Len(list) : list[i] = p
    THEN LET i == CHOOSE k \in 1..Len(list) :
                      list[k] = p /\ \A j \in 1..(k - 1) : list[j] # p
         IN SubSeq(list, 1, i - 1) \o SubSeq(list, i + 1, Len(list))
    ELSE list

----------------------------------------------------------------------------
(* Document assembler *)

\* render_symbols reads symbols["list"]: a KeyError when the payload has none
RenderRaises(body) == body.kind = "symbols" /\ "list" \notin body.content

\* the text convert_page_to_mdx returns: front matter and rendered body, a
\* function of the page's own title and body
convert_page_to_mdx(page) ==
    [kind |-> "mdx", title |-> page.title, pages |-> <<>>, root |-> FALSE,
     body |-> <<page.body>>]

\* the text generate_meta_json writes for directory_json
MetaText(directory_json) ==
    [kind |-> "meta", title |-> directory_json.title,
     pages |-> directory_json.children_order, root |-> directory_json.root,
     body |-> <<>>]

\* root_data of generate_mdx_docs
VERSION_TITLE == <<"latest">>

RootDataRaises(export) ==
    \E i \in 2..Len(export) : ChildKeyRaises(export[i].route)

RootData(export) ==
    [title |-> VERSION_TITLE,
     children_order |-> [i \in 1..(Len(export) - 1) |-> ChildKey(export[i + 1].route)],
     root |-> TRUE]

\* file_path.write_text(text)
WriteText(fs, path, text) == (path :> text) @@ fs

\* folder = output_base_path / route
PageFolder(page) == PathJoin(<<>>, page.route)

\* a layout that gives every page a directory
TargetFileAlwaysIndex(page) == PathChild(PageFolder(page), INDEX_MDX)

\* the file process_single_page writes the page's text to
TargetFile(page) ==
    IF page.has_children
    THEN PathChild(PageFolder(page), INDEX_MDX)
    ELSE PathWithSuffix(PageFolder(page), MDX_SUFFIX)

\* the descriptor generate_meta_json(page, folder) writes
TargetMeta(page) == PathChild(PageFolder(page), META_JSON)

\* the directories process_single_page makes
TargetDirs(page) ==
    IF page.has_children
    THEN MkdirParents(PageFolder(page))
    ELSE MkdirParents(PathParent(PageFolder(page)))

ROOT_INDEX_PATH == <<INDEX_MDX>>
ROOT_META_PATH == <<META_JSON>>

----------------------------------------------------------------------------
(* generate_mdx_docs and its worker tasks *)

NewTask ==
    [st |-> "new", status |-> "", error |-> "", writes |-> {}, mkdirs |-> {},
     submits |-> 0, runs |-> 0, collected |-> FALSE]

NewTasks(list) == [i \in 1..Len(list) |-> NewTask]

\* executor.submit(process_single_page, page, output_path)
Submitted(t) == [t EXCEPT !.st = "queued", !.submits = @ + 1]

\* a collecting loop that puts a failed page back on the queue
RetryOnError(t) ==
    IF t.status = "ERROR"
    THEN [t EXCEPT !.st = "queued", !.status = "", !.error = ""]
    ELSE [t EXCEPT !.collected = TRUE]

\* the loop body over as_completed: the result is read once and dropped
AfterResult(t) == [t EXCEPT !.collected = TRUE]

\* a collecting loop that drops the error results
LogNothing(errs, page, t) == errs

\* if status == "ERROR": logger.error(f"Failed to process {title}: {error}")
LogResult(errs, page, t) ==
    IF t.status = "ERROR"
    THEN Append(errs, [title |-> page.title, error |-> t.error])
    ELSE errs

\* the count of the closing logger.success
SummaryCount(list) == Len(list) + 1

\* "Completed MDX generation for {n} pages": a page count and nothing else
SummaryLine(list) == [completed |-> SummaryCount(list), failures |-> <<>>]

Init ==
    /\ json_data \in Exports
    /\ pc = "start"
    /\ raisedAt = ""
    /\ full_pages_list = <<>>
    /\ root_page = <<>>
    /\ files = <<>>
    /\ rootWrites = {}
    /\ tasks = <<>>
    /\ nsub = 0
    /\ errors = <<>>
    /\ summary = <<>>
    /\ ioFaults = 0
    /\ IdleHtml
    /\ IdleExt

Raise(where) ==
    /\ pc' = "raised"
    /\ raisedAt' = where

\* lines 326-333
Flatten ==
    /\ pc = "start"
    /\ LET r == FlattenAll(json_data, [raised |-> FALSE, list |-> <<>>])
       IN /\ full_pages_list' = r.list
          /\ IF r.raised
             THEN Raise("flatten") /\ root_page' = <<>>
             ELSE pc' = "root" /\ raisedAt' = "" /\ root_page' = FindRoot(r.list)
    /\ UNCHANGED <<htmlVars, extVars>>
    /\ UNCHANGED <<json_data, files, rootWrites, tasks, nsub, errors, summary, ioFaults>>

\* lines 338-345: root_data and the top-level meta.json
RootMeta ==
    /\ pc = "root"
    /\ root_page # <<>>
    /\ \/ /\ RootDataRaises(json_data)
          /\ Raise("root_meta")
          /\ UNCHANGED <<files, rootWrites, ioFaults>>
       \/ /\ ~RootDataRaises(json_data)
          /\ files' = WriteText(files, ROOT_META_PATH, MetaText(RootData(json_data)))
          /\ rootWrites' = rootWrites \cup {ROOT_META_PATH}
          /\ pc' = "root_index"
          /\ UNCHANGED <<raisedAt, ioFaults>>
       \/ /\ ~RootDataRaises(json_data)
          /\ ioFaults < MaxIoFaults
          /\ ioFaults' = ioFaults + 1
          /\ Raise("root_meta")
          /\ UNCHANGED <<files, rootWrites>>
    /\ UNCHANGED <<htmlVars, extVars>>
    /\ UNCHANGED <<json_data, full_pages_list, root_page, tasks, nsub, errors, summary>>

\* lines 347-349: the root's index.mdx, then the root leaves the list
RootIndex ==
    /\ pc = "root_index"
    /\ \/ /\ RenderRaises(root_page[1].body)
          /\ Raise("root_index")
          /\ UNCHANGED <<files, rootWrites, ioFaults, full_pages_list, tasks>>
       \/ /\ ~RenderRaises(root_page[1].body)
          /\ files' = WriteText(files, ROOT_INDEX_PATH, convert_page_to_mdx(root_page[1]))
          /\ rootWrites' = rootWrites \cup {ROOT_INDEX_PATH}
          /\ full_pages_list' = RemoveRoot(full_pages_list, root_page[1])
          /\ tasks' = NewTasks(full_pages_list')
          /\ pc' = "pool"
          /\ UNCHANGED <<raisedAt, ioFaults>>
       \/ /\ ~RenderRaises(root_page[1].body)
          /\ ioFaults < MaxIoFaults
          /\ ioFaults' = ioFaults + 1
          /\ Raise("root_index")
          /\ UNCHANGED <<files, rootWrites, full_pages_list, tasks>>
    /\ UNCHANGED <<htmlVars, extVars>>
    /\ UNCHANGED <<json_data, root_page, nsub, errors, summary>>

\* line 338 with root_page None
NoRoot ==
    /\ pc = "root"
    /\ root_page = <<>>
    /\ tasks' = NewTasks(full_pages_list)
    /\ pc' = "pool"
    /\ UNCHANGED <<htmlVars, extVars>>
    /\ UNCHANGED <<json_data, raisedAt, full_pages_list, root_page, files,
                   rootWrites, nsub, errors, summary, ioFaults>>

\* lines 352-355: the pages are submitted in list order
Submit ==
    /\ pc = "pool"
    /\ nsub < Len(full_pages_list)
    /\ nsub' = nsub + 1
    /\ tasks' = [tasks EXCEPT ![nsub + 1] = Submitted(@)]
    /\ UNCHANGED <<htmlVars, extVars>>
    /\ UNCHANGED <<json_data, pc, raisedAt, full_pages_list, root_page, files,
                   rootWrites, errors, summary, ioFaults>>

Done(t, status, error) == [t EXCEPT !.st = "done", !.status = status, !.error = error]

\* process_single_page, lines 302-317: render, pick the layout, make the
\* directories
TaskRender(i) ==
    /\ tasks[i].st = "queued"
    /\ LET page == full_pages_list[i]
           t == [tasks[i] EXCEPT !.runs = @ + 1]
       IN tasks' = [tasks EXCEPT ![i] =
             IF RenderRaises(page.body) THEN Done(t, "ERROR", "KeyError(list)")
             ELSE IF page.route = <<>> THEN Done(t, "ROOT_INDEX", "")
             ELSE [t EXCEPT !.st = "rendered", !.mkdirs = TargetDirs(page)]]
    /\ UNCHANGED <<htmlVars, extVars>>
    /\ UNCHANGED <<json_data, pc, raisedAt, full_pages_list, root_page, files,
                   rootWrites, nsub, errors, summary, ioFaults>>

\* line 313: generate_meta_json(page, folder)
TaskWriteMeta(i) ==
    /\ tasks[i].st = "rendered"
    /\ full_pages_list[i].has_children
    /\ LET page == full_pages_list[i]
       IN \/ /\ files' = WriteText(files, TargetMeta(page),
                            MetaText([title |-> page.title,
                                      children_order |-> page.children_order,
                                      root |-> FALSE]))
             /\ tasks' = [tasks EXCEPT ![i].st = "meta",
                                       ![i].writes = @ \cup {TargetMeta(page)}]
             /\ UNCHANGED ioFaults
          \/ /\ ioFaults < MaxIoFaults
             /\ ioFaults' = ioFaults + 1
             /\ tasks' = [tasks EXCEPT ![i] = Done(@, "ERROR", "OSError")]
             /\ UNCHANGED files
    /\ UNCHANGED <<htmlVars, extVars>>
    /\ UNCHANGED <<json_data, pc, raisedAt, full_pages_list, root_page,
                   rootWrites, nsub, errors, summary>>

\* lines 319-320: file_path.write_text(mdx_content)
TaskWriteMdx(i) ==
    /\ \/ tasks[i].st = "meta"
       \/ tasks[i].st = "rendered" /\ ~full_pages_list[i].has_children
    /\ LET page == full_pages_list[i]
       IN \/ /\ files' = WriteText(files, TargetFile(page), convert_page_to_mdx(page))
             /\ tasks' = [tasks EXCEPT ![i] =
                   Done([@ EXCEPT !.writes = @ \cup {TargetFile(page)}], "OK", "")]
             /\ UNCHANGED ioFaults
          \/ /\ ioFaults < MaxIoFaults
             /\ ioFaults' = ioFaults + 1
             /\ tasks' = [tasks EXCEPT ![i] = Done(@, "ERROR", "OSError")]
             /\ UNCHANGED files
    /\ UNCHANGED <<htmlVars, extVars>>
    /\ UNCHANGED <<json_data, pc, raisedAt, full_pages_list, root_page,
                   rootWrites, nsub, errors, summary>>

\* lines 357-360: one iteration of the loop over as_completed
Collect(i) ==
    /\ pc = "pool"
    /\ nsub = Len(full_pages_list)
    /\ tasks[i].st = "done"
    /\ ~tasks[i].collected
    /\ errors' = LogResult(errors, full_pages_list[i], tasks[i])
    /\ tasks' = [tasks EXCEPT ![i] = AfterResult(@)]
    /\ UNCHANGED <<htmlVars, extVars>>
    /\ UNCHANGED <<json_data, pc, raisedAt, full_pages_list, root_page, files,
                   rootWrites, nsub, summary, ioFaults>>

\* line 362, then the executor shuts down
Finish ==
    /\ pc = "pool"
    /\ nsub = Len(full_pages_list)
    /\ \A i \in 1..Len(full_pages_list) : tasks[i].collected
    /\ summary' = <<SummaryLine(full_pages_list)>>
    /\ pc' = "done"
    /\ UNCHANGED <<htmlVars, extVars>>
    /\ UNCHANGED <<json_data, raisedAt, full_pages_list, root_page, files,
                   rootWrites, tasks, nsub, errors, ioFaults>>

Next ==
    \/ Flatten
    \/ RootMeta
    \/ RootIndex
    \/ NoRoot
    \/ Submit
    \/ \E i \in 1..Len(tasks) : TaskRender(i)
    \/ \E i \in 1..Len(tasks) : TaskWriteMeta(i)
    \/ \E i \in 1..Len(tasks) : TaskWriteMdx(i)
    \/ \E i \in 1..Len(tasks) : Collect(i)
    \/ Finish

Spec == Init /\ [][Next]_vars

----------------------------------------------------------------------------
(* HTML rewriter (html_to_mdx.py).  A parsed fragment is a forest of nodes   *)
(* [tag, text, children]: tag "#text" is a NavigableString holding text, any *)
(* other tag an element; the inputs carry no attributes.  Output text is a   *)
(* sequence of characters [c, src]: src tells a character copied from a text *)
(* node of the fragment from one the rewriter wrote itself.                  *)

\* most characters in a text node of an input fragment
MaxTextLen == 1
\* most elements around a text node of an input fragment
MaxNest == 2

TextChars == {"x", "*", "{", "\\", " "}
Tags == {"p", "div", "a", "strong", "em", "code", "span", "h1", "h2", "pre",
         "details", "section"}

\* the backtick character, which a TLA+ string cannot hold
BT == "BACKTICK"

S(c) == [c |-> c, src |-> TRUE]
M(c) == [c |-> c, src |-> FALSE]

\* three backticks
FENCE == <<M(BT), M(BT), M(BT)>>

TextNode(t) == [tag |-> "#text", text |-> t, children |-> <<>>]
Element(tag, children) == [tag |-> tag, text |-> <<>>, children |-> children]

Texts == UNION {[1..n -> TextChars] : n \in 0..MaxTextLen}

RECURSIVE NodesNested(_)
NodesNested(d) ==
    IF d = 0 THEN {TextNode(t) : t \in Texts}
    ELSE NodesNested(d - 1)
            \cup {Element(tag, <<n>>) : tag \in Tags, n \in NodesNested(d - 1)}

Fragments ==
    {<<n>> : n \in NodesNested(MaxNest)}
        \cup {<<n, TextNode(<<"x">>)>> : n \in NodesNested(MaxNest)}

IsSpace(t) == t.c \in {" ", "\n"}

RECURSIVE LStripWs(_)
LStripWs(s) == IF s # <<>> /\ IsSpace(Head(s)) THEN LStripWs(Tail(s)) ELSE s

\* str.rstrip()
RECURSIVE RStripWs(_)
RStripWs(s) ==
    IF s # <<>> /\ IsSpace(s[Len(s)]) THEN RStripWs(SubSeq(s, 1, Len(s) - 1)) ELSE s

\* str.strip()
StripWs(s) == RStripWs(LStripWs(s))

\* text.replace(c, "\\" + c): every occurrence of c gets a backslash before it
RECURSIVE EscapeChar(_, _)
EscapeChar(s, c) ==
    IF s = <<>> THEN <<>>
    ELSE (IF Head(s).c = c THEN <<M("\\"), Head(s)>> ELSE <<Head(s)>>)
            \o EscapeChar(Tail(s), c)

\* text.replace(c, d)
ReplaceChar(s, c, d) == [i \in 1..Len(s) |-> IF s[i].c = c THEN [s[i] EXCEPT !.c = d] ELSE s[i]]

\* an order of the replace calls that handles the backslash last
ESCAPE_ORDER_BackslashLast == <<"&", "<", ">", "{", "}", "*", "_", BT, "\\">>

\* the order of the replace calls of escape_mdx_text
ESCAPE_ORDER == <<"\\", "&", "<", ">", "{", "}", "*", "_", BT>>

RECURSIVE EscapePasses(_, _)
EscapePasses(s, order) ==
    IF order = <<>> THEN s
    ELSE EscapePasses(EscapeChar(s, Head(order)), Tail(order))

escape_mdx_text(text) == EscapePasses(text, ESCAPE_ORDER)

\* str(navigable_string): the characters of a text node
NodeText(n) == [i \in 1..Len(n.text) |-> S(n.text[i])]

\* element.get_text(): the text nodes below, concatenated
RECURSIVE get_text(_)
RECURSIVE GetTextAll(_)
get_text(n) == IF n.tag = "#text" THEN NodeText(n) ELSE GetTextAll(n.children)
GetTextAll(ns) == IF ns = <<>> THEN <<>> ELSE get_text(Head(ns)) \o GetTextAll(Tail(ns))

\* element.get_text(strip=True): each text node stripped, empty ones dropped
RECURSIVE get_text_strip(_)
RECURSIVE GetTextStripAll(_)
get_text_strip(n) ==
    IF n.tag = "#text" THEN StripWs(NodeText(n)) ELSE GetTextStripAll(n.children)
GetTextStripAll(ns) ==
    IF ns = <<>> THEN <<>> ELSE get_text_strip(Head(ns)) \o GetTextStripAll(Tail(ns))

\* the entity substitution of str(element) on one character of text
EntityOf(t) ==
    IF t.c = "&" THEN <<[t EXCEPT !.c = "&amp;"]>>
    ELSE IF t.c = "<" THEN <<[t EXCEPT !.c = "&lt;"]>>
    ELSE IF t.c = ">" THEN <<[t EXCEPT !.c = "&gt;"]>>
    ELSE <<t>>

RECURSIVE Entities(_)
Entities(s) == IF s = <<>> THEN <<>> ELSE EntityOf(Head(s)) \o Entities(Tail(s))

\* str(element): the element written back as HTML
RECURSIVE Serialize(_)
RECURSIVE SerializeAll(_)
Serialize(n) ==
    IF n.tag = "#text" THEN Entities(NodeText(n))
    ELSE <<M("<"), M(n.tag), M(">")>> \o SerializeAll(n.children)
            \o <<M("</"), M(n.tag), M(">")>>
SerializeAll(ns) ==
    IF ns = <<>> THEN <<>> ELSE Serialize(Head(ns)) \o SerializeAll(Tail(ns))

\* "#" * level
RECURSIVE Hashes(_)
Hashes(level) == IF level = 0 THEN <<>> ELSE <<M("#")>> \o Hashes(level - 1)

HeadingLevel(tag) ==
    CASE tag = "h2" -> 2 [] tag = "h3" -> 3 [] tag = "h4" -> 4
      [] tag = "h5" -> 5 [] tag = "h6" -> 6

\* process_heading
process_heading(element) ==
    Hashes(HeadingLevel(element.tag)) \o <<M(" ")>> \o get_text_strip(element)

\* process_pre
process_pre(element) ==
    FENCE \o <<M("typst"), M("\n")>> \o RStripWs(get_text(element))
        \o <<M("\n")>> \o FENCE

RECURSIVE process_inline(_)
RECURSIVE InlineAll(_)

\* the link of process_element and process_inline; href is absent: ""
Link(element) ==
    <<M("[")>> \o StripWs(InlineAll(element.children)) \o <<M("]"), M("("), M(")")>>

\* the inline code span of process_inline
InlineCode(element) ==
    LET text == EscapeChar(EscapeChar(StripWs(get_text(element)), "{"), "}")
    IN IF Len(text) = 1 /\ text[1].c = BT THEN FENCE
       ELSE <<M(BT)>> \o text \o <<M("{:typst}"), M(BT)>>

process_inline(element) ==
    IF element.tag = "#text"
    THEN escape_mdx_text(ReplaceChar(NodeText(element), "\n", " "))
    ELSE IF element.tag = "span" THEN Serialize(element)
    ELSE IF element.tag = "a" THEN Link(element)
    ELSE IF element.tag \in {"strong", "b"}
         THEN <<M("**")>> \o get_text(element) \o <<M("**")>>
    ELSE IF element.tag \in {"em", "i"}
         THEN <<M("_")>> \o get_text(element) \o <<M("_")>>
    ELSE IF element.tag = "code" THEN InlineCode(element)
    ELSE InlineAll(element.children)

\* "".join([process_inline(child) for child in children])
InlineAll(ns) ==
    IF ns = <<>> THEN <<>> ELSE process_inline(Head(ns)) \o InlineAll(Tail(ns))

\* element.find_all(tags): the elements below with one of the tags, in
\* document order
RECURSIVE FindAll(_, _)
RECURSIVE FindAllIn(_, _)
FindAll(element, tags) == FindAllIn(element.children, tags)
FindAllIn(ns, tags) ==
    IF ns = <<>> THEN <<>>
    ELSE (IF Head(ns).tag \in tags THEN <<Head(ns)>> ELSE <<>>)
            \o FindAll(Head(ns), tags) \o FindAllIn(Tail(ns), tags)

\* element.find(tag): <<first element below with the tag>>, <<>> for None
Find(element, tag) ==
    LET all == FindAll(element, {tag})
    IN IF all = <<>> THEN <<>> ELSE <<all[1]>>

\* element.find_all(tag, recursive=False)
FindAllDirect(element, tag) == SelectSeq(element.children, LAMBDA n : n.tag = tag)

\* sep.join(parts)
RECURSIVE Join(_, _)
Join(parts, sep) ==
    IF parts = <<>> THEN <<>>
    ELSE IF Len(parts) = 1 THEN parts[1]
    ELSE parts[1] \o sep \o Join(Tail(parts), sep)

\* the content of one cell: inline-rendered, stripped, newlines to spaces
CellContent(cell) == ReplaceChar(StripWs(InlineAll(cell.children)), "\n", " ")

\* the contents of the td and th elements below a row
RowCells(tr) ==
    LET cells == FindAll(tr, {"td", "th"})
    IN [i \in 1..Len(cells) |-> CellContent(cells[i])]

\* "| " + " | ".join(cells) + " |"
TableRow(cells) ==
    <<M("|"), M(" ")>> \o Join(cells, <<M(" "), M("|"), M(" ")>>) \o <<M(" "), M("|")>>

\* a separator row of one cell
SeparatorCellsOne(headers) == <<<<M("---")>>>>

\* ["---"] * len(headers)
SeparatorCells(headers) == [i \in 1..Len(headers) |-> <<M("---")>>]

\* the loop over tr_list: a row under a thead is skipped, so is one with no cell
RECURSIVE BodyRows(_, _)
BodyRows(tr_list, parent) ==
    IF tr_list = <<>> THEN <<>>
    ELSE LET cells == RowCells(Head(tr_list))
         IN (IF parent # "thead" /\ cells # <<>> THEN <<TableRow(cells)>> ELSE <<>>)
               \o BodyRows(Tail(tr_list), parent)

\* process_table
process_table(element) ==
    LET thead == Find(element, "thead")
        header_row == IF thead # <<>> THEN Find(thead[1], "tr") ELSE <<>>
        headers == IF header_row # <<>> THEN RowCells(header_row[1]) ELSE <<>>
        head_md == IF headers # <<>>
                   THEN <<TableRow(headers), TableRow(SeparatorCells(headers))>>
                   ELSE <<>>
        tbody == Find(element, "tbody")
        tr_source == IF tbody # <<>> THEN tbody[1] ELSE element
        tr_list == FindAllDirect(tr_source, "tr")
    IN Join(head_md \o BodyRows(tr_list, tr_source.tag), <<M("\n")>>)

\* "  " * depth
RECURSIVE Indent(_)
Indent(depth) == IF depth = 0 THEN <<>> ELSE <<M(" "), M(" ")>> \o Indent(depth - 1)

\* f"{i+1}. " for an ordered list, "- " otherwise; i counts from 1 here
Marker(i, is_ordered) ==
    IF is_ordered THEN <<M(ToString(i)), M("."), M(" ")>> ELSE <<M("-"), M(" ")>>

RECURSIVE process_list(_, _)
RECURSIVE ListItemParts(_, _)
RECURSIVE ListItems(_, _, _, _)

\* the loop over child.children: a nested list goes in after a newline, one
\* level deeper; anything else is inline-rendered
ListItemParts(sub_children, depth) ==
    IF sub_children = <<>> THEN <<>>
    ELSE (IF Head(sub_children).tag \in {"ul", "ol"}
          THEN <<M("\n")>> \o process_list(Head(sub_children), depth + 1)
          ELSE process_inline(Head(sub_children)))
            \o ListItemParts(Tail(sub_children), depth)

\* the loop over the direct li children, from the i-th
ListItems(lis, i, is_ordered, depth) ==
    IF i > Len(lis) THEN <<>>
    ELSE LET content == StripWs(ListItemParts(lis[i].children, depth))
         IN <<Indent(depth) \o Marker(i, is_ordered) \o content>>
               \o ListItems(lis, i + 1, is_ordered, depth)

\* process_list
process_list(element, depth) ==
    Join(ListItems(FindAllDirect(element, "li"), 1, element.tag = "ol", depth),
         <<M("\n")>>)

\* process_element; parent is the tag of element.parent.  None and "" both
\* count as no result for the caller and are both <<>> here.
process_element(element, parent) ==
    IF element.tag = "#text" THEN
        LET text == StripWs(NodeText(element))
        IN IF text # <<>> THEN escape_mdx_text(text) ELSE <<>>
    ELSE IF element.tag = "div" THEN
        <<M("<div>"), M("\n")>> \o InlineAll(element.children)
            \o <<M("\n"), M("</div>")>>
    ELSE IF element.tag = "a" THEN Link(element)
    ELSE IF element.tag = "p" THEN InlineAll(element.children)
    ELSE IF element.tag \in {"h2", "h3", "h4", "h5", "h6"} THEN process_heading(element)
    ELSE IF element.tag = "code" /\ parent # "pre" THEN
        <<M(BT)>> \o RStripWs(get_text(element)) \o <<M("{:typst}"), M(BT)>>
    ELSE IF element.tag = "pre" THEN process_pre(element)
    ELSE IF element.tag = "table" THEN process_table(element)
    ELSE IF element.tag = "span" THEN process_inline(element)
    ELSE IF element.tag = "details" THEN Serialize(element)
    ELSE IF element.tag \in {"ul", "ol"} THEN process_list(element, 0)
    ELSE InlineAll(element.children)

\* the fragment with its h1 elements left in place
KeepH1(ns) == ns

\* for h1 in soup.find_all("h1"): h1.decompose()
RECURSIVE DecomposeH1(_)
DecomposeH1(ns) ==
    IF ns = <<>> THEN <<>>
    ELSE IF Head(ns).tag = "h1" THEN DecomposeH1(Tail(ns))
    ELSE <<[Head(ns) EXCEPT !.children = DecomposeH1(@)]>> \o DecomposeH1(Tail(ns))

\* "\n\n".join(output) over the results that are not empty
RECURSIVE JoinBlocks(_)
JoinBlocks(ns) ==
    IF ns = <<>> THEN <<>>
    ELSE LET result == process_element(Head(ns), "[document]")
             rest == JoinBlocks(Tail(ns))
         IN IF result = <<>> THEN rest
            ELSE IF rest = <<>> THEN result
            ELSE result \o <<M("\n\n")>> \o rest

html_to_mdx(soup) == IF soup = <<>> THEN <<>> ELSE JoinBlocks(DecomposeH1(soup))

InitHtml ==
    /\ IdlePipeline
    /\ IdleExt
    /\ html_content \in Fragments
    /\ mdx_output = <<>>
    /\ hpc = "parsed"

\* one call of html_to_mdx
Rewrite ==
    /\ hpc = "parsed"
    /\ mdx_output' = html_to_mdx(html_content)
    /\ hpc' = "rewritten"
    /\ UNCHANGED html_content
    /\ UNCHANGED <<pipeVars, extVars>>

NextHtml == Rewrite

SpecHtml == InitHtml /\ [][NextHtml]_vars

----------------------------------------------------------------------------
(* html_to_mdx on tables *)

\* most cells of a row of an input table
MaxCells == 2
\* most body rows of an input table
MaxRows == 2

Cell(tag) == Element(tag, <<TextNode(<<"x">>)>>)
Row(tag, n) == Element("tr", [i \in 1..n |-> Cell(tag)])

\* <<>>: no thead; <<k>>: a thead whose row has k cells
HeadShapes == {<<>>} \cup {<<k>> : k \in 0..MaxCells}

\* the number of cells of each body row
RowShapes == UNION {[1..r -> 0..MaxCells] : r \in 0..MaxRows}

Table(head, tbody, rows) ==
    LET trs == [i \in 1..Len(rows) |-> Row("td", rows[i])]
        h == IF head = <<>> THEN <<>> ELSE <<Element("thead", <<Row("th", head[1])>>)>>
        b == IF tbody THEN <<Element("tbody", trs)>> ELSE trs
    IN Element("table", h \o b)

TableFragments ==
    {<<Table(h, b, r)>> : h \in HeadShapes, b \in BOOLEAN, r \in RowShapes}

InitTable ==
    /\ IdlePipeline
    /\ IdleExt
    /\ html_content \in TableFragments
    /\ mdx_output = <<>>
    /\ hpc = "parsed"

SpecTable == InitTable /\ [][NextHtml]_vars

----------------------------------------------------------------------------
(* html_to_mdx on lists *)

\* most li elements of an input list
MaxItems == 2
\* most lists around a nested list of an input
MaxListDepth == 2

\* an li: a text or none, then no, one or two nested lists
ListItem(has_text, nested) ==
    Element("li", (IF has_text THEN <<TextNode(<<"x">>)>> ELSE <<>>) \o nested)

\* the lists with at most d levels of lists below them; the items after the
\* first hold no list
RECURSIVE ListsNested(_)
ListsNested(d) ==
    LET below == IF d = 0 THEN {} ELSE ListsNested(d - 1)
        plain == {ListItem(b, <<>>) : b \in BOOLEAN}
        first == plain \cup {ListItem(b, <<l>>) : b \in BOOLEAN, l \in below}
                       \cup {ListItem(b, <<l, l>>) : b \in BOOLEAN, l \in below}
        items == {<<f>> : f \in first}
                    \cup UNION {{<<f>> \o r : f \in first} :
                                   r \in UNION {[1..n -> plain] : n \in 1..(MaxItems - 1)}}
    IN {Element(tag, lis) : tag \in {"ul", "ol"}, lis \in items}

ListFragments == {<<l>> : l \in ListsNested(MaxListDepth)}

InitList ==
    /\ IdlePipeline
    /\ IdleExt
    /\ html_content \in ListFragments
    /\ mdx_output = <<>>
    /\ hpc = "parsed"

SpecList == InitList /\ [][NextHtml]_vars

----------------------------------------------------------------------------
(* html_to_mdx on headings *)

\* most elements around a text node of an input with headings
MaxHeadNest == 2

HeadTags == {"h1", "h2", "h3", "p", "div", "section"}
HeadTexts == {<<>>, <<"x">>, <<" ", "x">>}

\* a text node, or an element around one node or around a node and a text
RECURSIVE HeadNodes(_)
HeadNodes(d) ==
    IF d = 0 THEN {TextNode(s) : s \in HeadTexts}
    ELSE HeadNodes(0)
            \cup {Element(tag, <<n>>) : tag \in HeadTags, n \in HeadNodes(d - 1)}
            \cup {Element(tag, <<n, TextNode(<<"x">>)>>) :
                     tag \in HeadTags, n \in HeadNodes(d - 1)}

HeadFragments ==
    {<<n>> : n \in HeadNodes(MaxHeadNest)}
        \cup {<<n, Element("h3", <<TextNode(<<"x">>)>>)>> : n \in HeadNodes(MaxHeadNest)}
        \cup {<<Element("h1", <<TextNode(<<"x">>)>>), n>> : n \in HeadNodes(MaxHeadNest)}

InitHeading ==
    /\ IdlePipeline
    /\ IdleExt
    /\ html_content \in HeadFragments
    /\ mdx_output = <<>>
    /\ hpc = "parsed"

SpecHeading == InitHeading /\ [][NextHtml]_vars

----------------------------------------------------------------------------
(* escape_mdx_text on its own *)

\* most characters of a string handed to escape_mdx_text
MaxEscLen == 3

SpecialChars == {"\\", "&", "<", ">", "{", "}", "*", "_", BT}

\* the alphabet of the strings: every escaped character and a plain one
EscAlphabet == SpecialChars \cup {"x"}

EscTexts == UNION {[1..n -> {S(c) : c \in EscAlphabet}] : n \in 0..MaxEscLen}

InitEscape ==
    /\ IdlePipeline
    /\ IdleHtml
    /\ IdleRender
    /\ IdleParse
    /\ IdleFetch
    /\ esc_text \in EscTexts
    /\ escaped = <<>>

\* one call of escape_mdx_text
Escape ==
    /\ escaped = <<>>
    /\ escaped' = <<escape_mdx_text(esc_text)>>
    /\ UNCHANGED <<esc_text, pipeVars, htmlVars, renderVars, parseVars, fetchVars>>

NextEscape == Escape

SpecEscape == InitEscape /\ [][NextEscape]_vars

----------------------------------------------------------------------------
(* The renderers of func, group and type bodies.  The markup is the          *)
(* sequence of its headings and code blocks; details and examples are empty. *)
(* A function's name is the number of scopes around it, and a heading        *)
(* carries the name of the function it was written for.                      *)

\* most parameters of a function of an input body
MaxParams == 1
\* most scopes around a function of an input body
MaxScopeDepth == 2

\* def render_func(func, heading_level = 2)
DEFAULT_HEADING_LEVEL == 2
\* "### {name} ({types})" in render_params_md
PARAM_HEADING_LEVEL == 3
\* "## Constructor", "## Methods"
TYPE_SECTION_LEVEL == 2
\* render_func(..., heading_level=3) in render_type
TYPE_MEMBER_LEVEL == 3

HeadingMd(level, title, of) == [kind |-> "heading", level |-> level, title |-> title, of |-> of]
CodeBlockMd(of) == [kind |-> "code", level |-> 0, title |-> "signature", of |-> of]

\* render_params_md: one subsection per parameter
render_params_md(params) ==
    [i \in 1..Len(params) |-> HeadingMd(PARAM_HEADING_LEVEL, "param", params[i].of)]

\* the level render_func hands to the functions of its scope
ScopeLevel(heading_level) == heading_level + 1

RECURSIVE render_func(_, _)
RECURSIVE RenderFuncs(_, _)

\* render_func
render_func(func, heading_level) ==
    (IF func.params # <<>>
     THEN <<HeadingMd(heading_level, "Parameters", func.name), CodeBlockMd(func.name)>>
             \o render_params_md(func.params)
     ELSE <<>>)
      \o (IF func.scope # <<>>
          THEN <<HeadingMd(heading_level + 1, "Definitions", func.name)>>
                  \o RenderFuncs(func.scope, ScopeLevel(heading_level))
          ELSE <<>>)

\* result += render_func(f, level) for each f
RenderFuncs(funcs, level) ==
    IF funcs = <<>> THEN <<>>
    ELSE render_func(Head(funcs), level) \o RenderFuncs(Tail(funcs), level)

\* render_group
render_group(group) == RenderFuncs(group.functions, DEFAULT_HEADING_LEVEL)

\* render_type
render_type(type_data) ==
    (IF type_data.constructor # <<>>
     THEN <<HeadingMd(TYPE_SECTION_LEVEL, "Constructor", 0)>>
             \o render_func(type_data.constructor[1], TYPE_MEMBER_LEVEL)
     ELSE <<>>)
      \o (IF type_data.scope # <<>>
          THEN <<HeadingMd(TYPE_SECTION_LEVEL, "Methods", 0)>>
                  \o RenderFuncs(type_data.scope, TYPE_MEMBER_LEVEL)
          ELSE <<>>)

\* render_body for the kinds func, group and type
render_body(body_type, body_content) ==
    IF body_type = "func" THEN render_func(body_content, DEFAULT_HEADING_LEVEL)
    ELSE IF body_type = "group" THEN render_group(body_content)
    ELSE IF body_type = "type" THEN render_type(body_content)
    ELSE <<>>

Params(k) == {[i \in 1..n |-> [name |-> i, of |-> k]] : n \in 0..MaxParams}

\* the functions with k scopes around them and at most d levels of scope
\* below; the second function of a scope has no scope of its own
RECURSIVE FuncsAt(_, _)
FuncsAt(k, d) ==
    LET leaves == {[name |-> k + 1, params |-> ps, scope |-> <<>>] : ps \in Params(k + 1)}
        below == IF d = 0 THEN {} ELSE FuncsAt(k + 1, d - 1)
        scopes == {<<>>} \cup {<<f>> : f \in below}
                         \cup {<<f, g>> : f \in below, g \in leaves}
    IN {[name |-> k, params |-> ps, scope |-> s] : ps \in Params(k), s \in scopes}

Bodies ==
    {[kind |-> "func", content |-> f] : f \in FuncsAt(0, MaxScopeDepth)}
      \cup {[kind |-> "group", content |-> [functions |-> fs]] :
               fs \in UNION {[1..n -> FuncsAt(0, 0)] : n \in 0..2}}
      \cup {[kind |-> "type", content |-> [constructor |-> c, scope |-> s]] :
               c \in {<<>>} \cup {<<f>> : f \in FuncsAt(0, 0)},
               s \in {<<>>} \cup {<<f>> : f \in FuncsAt(0, MaxScopeDepth - 1)}}

InitRender ==
    /\ IdlePipeline
    /\ IdleHtml
    /\ IdleEscape
    /\ IdleParse
    /\ IdleFetch
    /\ body_node \in {<<b>> : b \in Bodies}
    /\ rendered = <<>>

\* one call of render_body
RenderBody ==
    /\ rendered = <<>>
    /\ rendered' = <<render_body(body_node[1].kind, body_node[1].content)>>
    /\ UNCHANGED <<body_node, pipeVars, htmlVars, escVars, parseVars, fetchVars>>

NextRender == RenderBody

SpecRender == InitRender /\ [][NextRender]_vars

----------------------------------------------------------------------------
(* parse_docs.py: main and build_docs_for_version *)

Versions == {"v1", "v2"}

\* a file of the data directory: {slug}_{version}{suffix}
DataFile(slug, version, suffix) == [slug |-> slug, version |-> version, suffix |-> suffix]

DataFiles ==
    {DataFile("docs", v, ".json") : v \in Versions}
        \cup {DataFile("other", "v2", ".json"), DataFile("readme", "x", ".txt")}

JSON_SLUG == "docs"

\* json_path.exists() for data_dir / f"{json_slug}_{version}.json"
JsonExists(version) == DataFile(JSON_SLUG, version, ".json") \in data_dir[1]

\* the orders in which iterdir() can give the files of a set
Orderings(fs) ==
    {o \in [1..Cardinality(fs) -> fs] : \A i, j \in 1..Cardinality(fs) : i # j => o[i] # o[j]}

\* child.stem.split("_")[1] for the files with suffix ".json", in order
RECURSIVE VersionsOf(_)
VersionsOf(target_files) ==
    IF target_files = <<>> THEN <<>>
    ELSE (IF Head(target_files).suffix # ".json" THEN <<>>
          ELSE <<Head(target_files).version>>) \o VersionsOf(Tail(target_files))

InitParse ==
    /\ IdlePipeline
    /\ IdleHtml
    /\ IdleEscape
    /\ IdleRender
    /\ IdleFetch
    /\ data_dir \in {<<>>} \cup {<<fs>> : fs \in SUBSET DataFiles}
    /\ args \in [version : {<<>>} \cup {<<v>> : v \in Versions}, unpack_latest : BOOLEAN]
    /\ target_versions = <<>>
    /\ vi = 0
    /\ outcomes = <<>>
    /\ out_dirs = {}
    /\ generated = {}
    /\ ppc = "start"
    /\ exit_code = <<>>

\* exit(status), or an exception that leaves main
Exit(status) ==
    /\ ppc' = "exited"
    /\ exit_code' = <<status>>

\* lines 51-53
CheckDataDir ==
    /\ ppc = "start"
    /\ IF data_dir = <<>>
       THEN Exit(1)
       ELSE ppc' = "targets" /\ UNCHANGED exit_code
    /\ UNCHANGED <<data_dir, args, target_versions, vi, outcomes, out_dirs, generated>>
    /\ UNCHANGED <<pipeVars, htmlVars, escVars, renderVars, fetchVars>>

\* lines 55-73: the versions to build, then the output directory is emptied
Targets ==
    /\ ppc = "targets"
    /\ IF args.version = <<>>
       THEN IF data_dir[1] = {}
            THEN Exit(1) /\ UNCHANGED <<target_versions, vi>>
            ELSE /\ \E target_files \in Orderings(data_dir[1]) :
                        target_versions' = VersionsOf(target_files)
                 /\ vi' = 1
                 /\ ppc' = "loop"
                 /\ UNCHANGED exit_code
       ELSE /\ target_versions' = args.version
            /\ vi' = 1
            /\ ppc' = "loop"
            /\ UNCHANGED exit_code
    /\ out_dirs' = {}
    /\ UNCHANGED <<data_dir, args, outcomes, generated>>
    /\ UNCHANGED <<pipeVars, htmlVars, escVars, renderVars, fetchVars>>

\* build_docs_for_version when the JSON is absent: the version directory is
\* made anew, the error is logged and the function returns
BuildDocsMissing ==
    /\ ppc = "loop"
    /\ vi <= Len(target_versions)
    /\ ~JsonExists(target_versions[vi])
    /\ out_dirs' = out_dirs \cup {target_versions[vi]}
    /\ outcomes' = Append(outcomes, [version |-> target_versions[vi],
                                      result |-> "returned",
                                      logged |-> "error"])
    /\ vi' = vi + 1
    /\ UNCHANGED <<data_dir, args, target_versions, generated, ppc, exit_code>>
    /\ UNCHANGED <<pipeVars, htmlVars, escVars, renderVars, fetchVars>>

\* build_docs_for_version when the JSON is there and generate_mdx_docs returns
BuildDocsGenerated ==
    /\ ppc = "loop"
    /\ vi <= Len(target_versions)
    /\ JsonExists(target_versions[vi])
    /\ out_dirs' = out_dirs \cup {target_versions[vi]}
    /\ generated' = generated \cup {target_versions[vi]}
    /\ outcomes' = Append(outcomes, [version |-> target_versions[vi],
                                      result |-> "returned",
                                      logged |-> "success"])
    /\ vi' = vi + 1
    /\ UNCHANGED <<data_dir, args, target_versions, ppc, exit_code>>
    /\ UNCHANGED <<pipeVars, htmlVars, escVars, renderVars, fetchVars>>

\* build_docs_for_version when generate_mdx_docs raises: nothing catches it
BuildDocsRaises ==
    /\ ppc = "loop"
    /\ vi <= Len(target_versions)
    /\ JsonExists(target_versions[vi])
    /\ out_dirs' = out_dirs \cup {target_versions[vi]}
    /\ outcomes' = Append(outcomes, [version |-> target_versions[vi],
                                      result |-> "raised",
                                      logged |-> "traceback"])
    /\ Exit(1)
    /\ UNCHANGED <<data_dir, args, target_versions, vi, generated>>
    /\ UNCHANGED <<pipeVars, htmlVars, escVars, renderVars, fetchVars>>

\* lines 79-85 and the end of main
EndOfMain ==
    /\ ppc = "loop"
    /\ vi > Len(target_versions)
    /\ IF ~args.unpack_latest THEN Exit(0) /\ UNCHANGED <<out_dirs, generated>>
       ELSE IF target_versions = <<>> THEN Exit(1) /\ UNCHANGED <<out_dirs, generated>>
       ELSE IF target_versions[Len(target_versions)] \notin out_dirs
            THEN Exit(1) /\ UNCHANGED <<out_dirs, generated>>
       ELSE /\ out_dirs' = out_dirs \ {target_versions[Len(target_versions)]}
            /\ UNCHANGED generated
            /\ Exit(0)
    /\ UNCHANGED <<data_dir, args, target_versions, vi, outcomes>>
    /\ UNCHANGED <<pipeVars, htmlVars, escVars, renderVars, fetchVars>>

NextParse ==
    \/ CheckDataDir
    \/ Targets
    \/ BuildDocsMissing
    \/ BuildDocsGenerated
    \/ BuildDocsRaises
    \/ EndOfMain

SpecParse == InitParse /\ [][NextParse]_vars

----------------------------------------------------------------------------
(* fetch_json.py: main, should_build, build_json_for_ref, manage_toolchain *)

\* most rustup commands that fail in one run
MaxRustupFaults == 1

\* the version get_pinned_rust_version reports
PINNED == "1.80"

FetchModes == {"default", "all"} \cup Versions

nonFetchVars == <<pipeVars, htmlVars, escVars, renderVars, parseVars>>

InitFetch ==
    /\ IdlePipeline
    /\ IdleHtml
    /\ IdleEscape
    /\ IdleRender
    /\ IdleParse
    /\ f_args \in [force : BOOLEAN, mode : FetchModes]
    /\ typst_versions \in {<<>>, <<"v1">>, <<"v1", "v2">>}
    /\ json_exists \in SUBSET Versions
    /\ assets_exist \in SUBSET Versions
    /\ selected = <<>>
    /\ json_targets = <<>>
    /\ fi = 0
    /\ results = <<>>
    /\ fpc = "start"
    /\ f_exit = <<>>
    /\ bpc = "idle"
    /\ toolchains \in {{}, {PINNED}}
    /\ toolchain_was_installed = FALSE
    /\ installed_by_us = FALSE
    /\ pending = ""
    /\ system_failed = FALSE
    /\ tc_before = {}
    /\ rustup_log = <<>>
    /\ rustup_faults = 0
    /\ calls = <<>>

\* exit(status), or an exception that leaves main
FetchExit(status) ==
    /\ fpc' = "exited"
    /\ f_exit' = <<status>>

InSeq(x, s) == \E i \in 1..Len(s) : s[i] = x

\* lines 249-265: the versions selected by the command line
SelectTargets ==
    /\ fpc = "start"
    /\ LET mode == f_args.mode
           raises == mode = "default" /\ typst_versions = <<>>
           unknown == mode \in Versions /\ ~InSeq(mode, typst_versions)
           targets == IF mode = "all" THEN typst_versions
                      ELSE IF mode \in Versions THEN <<mode>>
                      ELSE <<typst_versions[Len(typst_versions)]>>
       IN IF raises \/ unknown THEN FetchExit(1) /\ UNCHANGED selected
          ELSE IF targets = <<>> THEN FetchExit(0) /\ UNCHANGED selected
          ELSE selected' = targets /\ fpc' = "filter" /\ UNCHANGED f_exit
    /\ UNCHANGED <<f_args, typst_versions, json_targets, fi, results>>
    /\ UNCHANGED <<buildVars, nonFetchVars>>

\* should_build
should_build(target_version) ==
    ~(target_version \in json_exists) \/ ~(target_version \in assets_exist)

\* lines 267-272
FilterTargets ==
    /\ fpc = "filter"
    /\ json_targets' = SelectSeq(selected, should_build)
    /\ fi' = 1
    /\ fpc' = "loop"
    /\ UNCHANGED <<f_args, typst_versions, selected, results, f_exit>>
    /\ UNCHANGED <<buildVars, nonFetchVars>>

InLoop == fpc = "loop" /\ fi <= Len(json_targets)

\* the call ends: main appends what it returned and goes to the next ref
Return(value) ==
    /\ results' = Append(results, value)
    /\ fi' = fi + 1
    /\ bpc' = "idle"
    /\ UNCHANGED <<fpc, f_exit>>

\* the record of a call that has ended
CallRecord(log, after) ==
    [ref |-> json_targets[fi], before |-> tc_before, after |-> after,
     log |-> log, system_failed |-> system_failed]

\* lines 154-161: the call begins with the checkout, which may fail
Checkout ==
    /\ InLoop
    /\ bpc = "idle"
    /\ tc_before' = toolchains
    /\ rustup_log' = <<>>
    /\ system_failed' = FALSE
    /\ installed_by_us' = FALSE
    /\ toolchain_was_installed' = FALSE
    /\ pending' = ""
    /\ \E ok \in BOOLEAN :
          IF ok THEN /\ bpc' = "system"
                     /\ UNCHANGED <<results, fi, fpc, f_exit, calls>>
          ELSE /\ Return("None")
               /\ calls' = Append(calls, [ref |-> json_targets[fi], before |-> toolchains,
                                            after |-> toolchains, log |-> <<>>,
                                            system_failed |-> FALSE])
    /\ UNCHANGED <<f_args, typst_versions, selected, json_targets>>
    /\ UNCHANGED <<json_exists, assets_exist, toolchains, rustup_faults>>
    /\ UNCHANGED nonFetchVars

\* lines 181-188: the build with the system toolchain
SystemBuild ==
    /\ InLoop
    /\ bpc = "system"
    /\ \E ok \in BOOLEAN :
          IF ok THEN /\ json_exists' = json_exists \cup {json_targets[fi]}
                     /\ assets_exist' = assets_exist \cup {json_targets[fi]}
                     /\ Return("json_path")
                     /\ calls' = Append(calls, CallRecord(rustup_log, toolchains))
                     /\ UNCHANGED system_failed
          ELSE /\ system_failed' = TRUE
               /\ bpc' = "pinned"
               /\ UNCHANGED <<json_exists, assets_exist, results, fi, fpc, f_exit, calls>>
    /\ UNCHANGED <<f_args, typst_versions, selected, json_targets>>
    /\ UNCHANGED <<toolchains, toolchain_was_installed, installed_by_us, pending,
                    tc_before, rustup_log, rustup_faults>>
    /\ UNCHANGED nonFetchVars

\* lines 190-193: get_pinned_rust_version finds a version or none
GetPinned ==
    /\ InLoop
    /\ bpc = "pinned"
    /\ \E found \in BOOLEAN :
          IF found THEN /\ bpc' = "is_installed"
                        /\ UNCHANGED <<results, fi, fpc, f_exit, calls>>
          ELSE /\ Return("None")
               /\ calls' = Append(calls, CallRecord(rustup_log, toolchains))
    /\ UNCHANGED <<f_args, typst_versions, selected, json_targets>>
    /\ UNCHANGED <<json_exists, assets_exist, toolchains, toolchain_was_installed,
                    installed_by_us, pending, system_failed, tc_before, rustup_log,
                    rustup_faults>>
    /\ UNCHANGED nonFetchVars

\* a rustup command ends well, or fails while the fault budget lasts
RustupOutcomes == {TRUE} \cup (IF rustup_faults < MaxRustupFaults THEN {FALSE} ELSE {})

\* is_toolchain_installed: False when the listing fails
is_toolchain_installed(version, ok) == ok /\ version \in toolchains

\* lines 195-196
IsInstalled ==
    /\ InLoop
    /\ bpc = "is_installed"
    /\ \E ok \in RustupOutcomes :
          /\ toolchain_was_installed' = is_toolchain_installed(PINNED, ok)
          /\ rustup_faults' = IF ok THEN rustup_faults ELSE rustup_faults + 1
    /\ installed_by_us' = FALSE
    /\ bpc' = "install"
    /\ UNCHANGED <<fetchMainVars, nonFetchVars>>
    /\ UNCHANGED <<json_exists, assets_exist, toolchains, pending, system_failed,
                    tc_before, rustup_log, calls>>

\* manage_toolchain: the command is run; its failure is logged and swallowed
manage_toolchain(version, action, ok) ==
    IF version = "stable" \/ ~ok THEN toolchains
    ELSE IF action = "install" THEN toolchains \cup {version}
    ELSE toolchains \ {version}

\* lines 200-205
Install ==
    /\ InLoop
    /\ bpc = "install"
    /\ IF ~toolchain_was_installed
       THEN /\ \E ok \in RustupOutcomes :
                  /\ toolchains' = manage_toolchain(PINNED, "install", ok)
                  /\ rustup_faults' = IF ok THEN rustup_faults ELSE rustup_faults + 1
            /\ installed_by_us' = TRUE
            /\ rustup_log' = Append(rustup_log, "install")
       ELSE UNCHANGED <<toolchains, rustup_faults, installed_by_us, rustup_log>>
    /\ bpc' = "pinned_build"
    /\ UNCHANGED <<fetchMainVars, nonFetchVars>>
    /\ UNCHANGED <<json_exists, assets_exist, toolchain_was_installed, pending,
                    system_failed, tc_before, calls>>

\* lines 207-217: the build with the pinned toolchain succeeds, fails or raises
PinnedBuild ==
    /\ InLoop
    /\ bpc = "pinned_build"
    /\ \E outcome \in {"ok", "fail", "raise"} :
          /\ pending' = outcome
          /\ IF outcome = "ok"
             THEN /\ json_exists' = json_exists \cup {json_targets[fi]}
                  /\ assets_exist' = assets_exist \cup {json_targets[fi]}
             ELSE UNCHANGED <<json_exists, assets_exist>>
    /\ rustup_log' = Append(rustup_log, "build")
    /\ bpc' = "finally"
    /\ UNCHANGED <<fetchMainVars, nonFetchVars>>
    /\ UNCHANGED <<toolchains, toolchain_was_installed, installed_by_us, system_failed,
                    tc_before, rustup_faults, calls>>

\* lines 218-223: the finally block, then the call ends as the try block did
Finally ==
    /\ InLoop
    /\ bpc = "finally"
    /\ \E ok \in RustupOutcomes :
          LET uninstall == installed_by_us /\ PINNED # "stable"
              after == IF uninstall THEN manage_toolchain(PINNED, "uninstall", ok)
                       ELSE toolchains
              log == IF uninstall THEN Append(rustup_log, "uninstall") ELSE rustup_log
          IN /\ (~uninstall => ok)
             /\ toolchains' = after
             /\ rustup_log' = log
             /\ rustup_faults' = IF ok THEN rustup_faults ELSE rustup_faults + 1
             /\ calls' = Append(calls, CallRecord(log, after))
    /\ IF pending = "raise"
       THEN /\ FetchExit(1)
            /\ bpc' = "raised"
            /\ UNCHANGED <<results, fi>>
       ELSE Return(IF pending = "ok" THEN "json_path" ELSE "None")
    /\ UNCHANGED <<f_args, typst_versions, selected, json_targets>>
    /\ UNCHANGED <<json_exists, assets_exist, toolchain_was_installed, installed_by_us,
                    pending, system_failed, tc_before>>
    /\ UNCHANGED nonFetchVars

\* lines 287-288
FinishFetch ==
    /\ fpc = "loop"
    /\ fi > Len(json_targets)
    /\ FetchExit(0)
    /\ UNCHANGED <<f_args, typst_versions, selected, json_targets, fi, results>>
    /\ UNCHANGED <<buildVars, nonFetchVars>>

NextFetch ==
    \/ SelectTargets
    \/ FilterTargets
    \/ Checkout
    \/ SystemBuild
    \/ GetPinned
    \/ IsInstalled
    \/ Install
    \/ PinnedBuild
    \/ Finally
    \/ FinishFetch

SpecFetch == InitFetch /\ [][NextFetch]_vars

----------------------------------------------------------------------------
(* Properties of the driver, the layout and the flattener *)

PoolIdx == 1..Len(tasks)

\* number of tasks that returned an ERROR result
NumErrors == Cardinality({i \in PoolIdx : tasks[i].status = "ERROR"})

\* the components of a route, and its last segment
RouteSegments(route) == SelectSeq(split(route), LAMBDA c : c # <<>>)
LastSegment(route) == RouteSegments(route)[Len(RouteSegments(route))]

\* the pages of a forest, and the pages below a page
RECURSIVE NodesOf(_)
NodesOf(items) ==
    IF items = <<>> THEN {}
    ELSE {Head(items)} \cup NodesOf(Head(items).children) \cup NodesOf(Tail(items))

\* position of the record with a given title in the flattened list (0: none)
PosOf(title) ==
    IF \E i \in 1..Len(full_pages_list) : full_pages_list[i].title = title
    THEN CHOOSE i \in 1..Len(full_pages_list) : full_pages_list[i].title = title
    ELSE 0

\* C1: any two pages of the flattened list whose routes differ, and any
\* non-root page and the root, write disjoint sets of files.
C1_DistinctRoutesDistinctFiles ==
    /\ \A i, j \in PoolIdx :
          (i # j /\ full_pages_list[i].route # full_pages_list[j].route)
              => tasks[i].writes \cap tasks[j].writes = {}
    /\ \A i \in PoolIdx : tasks[i].writes \cap rootWrites = {}

\* C2: an exception while assembling or writing a page, the root included,
\* never leaves generate_mdx_docs; it becomes an error record with the page's
\* title and message, and the other pages are still written.
C2_PageFailureIsConfined ==
    /\ raisedAt # "root_index"
    /\ pc = "done" =>
          \A i \in PoolIdx :
             /\ tasks[i].status = "ERROR" =>
                   \E k \in 1..Len(errors) :
                      errors[k] = [title |-> full_pages_list[i].title,
                                   error |-> tasks[i].error]
             /\ tasks[i].status # "ERROR" => tasks[i].status = "OK"

\* the output of processing the pages one after another in list order
RECURSIVE SequentialRun(_, _)
SequentialRun(list, fs) ==
    IF list = <<>> THEN fs
    ELSE LET page == Head(list)
             meta == MetaText([title |-> page.title,
                               children_order |-> page.children_order,
                               root |-> FALSE])
         IN SequentialRun(Tail(list),
               IF RenderRaises(page.body) \/ page.route = <<>> THEN fs
               ELSE IF page.has_children
                    THEN WriteText(WriteText(fs, TargetMeta(page), meta),
                                   TargetFile(page), convert_page_to_mdx(page))
                    ELSE WriteText(fs, TargetFile(page), convert_page_to_mdx(page)))

RootFiles ==
    IF root_page = <<>> THEN <<>>
    ELSE WriteText(WriteText(<<>>, ROOT_META_PATH, MetaText(RootData(json_data))),
                   ROOT_INDEX_PATH, convert_page_to_mdx(root_page[1]))

\* C3: when the run has finished without an I/O failure, every file holds
\* what the sequential pipeline leaves in it, whatever the completion order.
C3_ParallelEqualsSequential ==
    (pc = "done" /\ ioFaults = 0) => files = SequentialRun(full_pages_list, RootFiles)

C5_RootWrittenBeforePool ==
    root_page # <<>> =>
        /\ (nsub > 0 \/ \E i \in PoolIdx : tasks[i].st # "new") =>
              /\ {ROOT_META_PATH, ROOT_INDEX_PATH} \subseteq rootWrites
              /\ {ROOT_META_PATH, ROOT_INDEX_PATH} \subseteq DOMAIN files
        /\ \A i \in PoolIdx : full_pages_list[i] # root_page[1]
        /\ \A i \in PoolIdx : full_pages_list[i].route # <<>>

C5_Witness ==
    /\ root_page # <<>>
    /\ nsub = 1
    /\ Len(tasks) = 2
    /\ tasks[1].st = "rendered"

\* C6: no page is submitted twice and no task runs twice, a failed one
\* included, the pages of the pool are pairwise distinct, and once the
\* executor block is left every page has been submitted once and run once.
C6_EachTaskRunsOnce ==
    /\ \A i \in PoolIdx : tasks[i].submits <= 1 /\ tasks[i].runs <= 1
    /\ \A i, j \in PoolIdx : i # j => full_pages_list[i] # full_pages_list[j]
    /\ pc = "done" => \A i \in PoolIdx : tasks[i].submits = 1 /\ tasks[i].runs = 1

C6_Witness ==
    /\ pc = "done"
    /\ Len(tasks) = 2
    /\ \E i \in PoolIdx : tasks[i].status = "ERROR" /\ tasks[i].collected

\* C7: a successful task of a page with children wrote r/index.mdx and
\* r/meta.json (which lists the page's children_order) and nothing else; one
\* of a leaf wrote r.mdx and nothing else and made no directory r.
C7_LayoutOfSuccessfulTask ==
    \A i \in PoolIdx :
        tasks[i].status = "OK" =>
            LET page == full_pages_list[i]
                r == RouteSegments(page.route)
                rindex == Append(r, <<"index", ".mdx">>)
                rmeta == Append(r, <<"meta", ".json">>)
                rmdx == [r EXCEPT ![Len(r)] = @ \o <<".mdx">>]
            IN IF page.has_children
               THEN /\ tasks[i].writes = {rindex, rmeta}
                    /\ rmdx \notin tasks[i].writes
                    /\ files[rmeta].kind = "meta"
                    /\ files[rmeta].pages = page.children_order
               ELSE /\ tasks[i].writes = {rmdx}
                    /\ r \notin tasks[i].mkdirs
                    /\ rmeta \notin tasks[i].writes

C7_Witness ==
    \E i, j \in PoolIdx :
        /\ tasks[i].status = "OK" /\ full_pages_list[i].has_children
        /\ tasks[j].status = "OK" /\ ~full_pages_list[j].has_children

\* C8: computing children_order never raises, and for every page with
\* children it is the last path segment of each child's route, in order.
C8_ChildrenOrderIsLastSegment ==
    /\ raisedAt # "flatten"
    /\ pc = "root" =>
          \A n \in NodesOf(json_data) :
             n.children # <<>> =>
                /\ PosOf(n.title) > 0
                /\ full_pages_list[PosOf(n.title)].children_order =
                      [i \in 1..Len(n.children) |-> LastSegment(n.children[i].route)]

\* C9: when flattening returns, the list holds one record per page of the
\* export, every page before all pages below it, and the children of a page
\* (and the top-level pages) in their original order.
C9_FlattenIsPreOrder ==
    pc = "root" =>
        /\ Len(full_pages_list) = Cardinality(NodesOf(json_data))
        /\ \A n \in NodesOf(json_data) :
              /\ PosOf(n.title) > 0
              /\ \A k \in 1..Len(full_pages_list) :
                    full_pages_list[k].title = n.title => k = PosOf(n.title)
              /\ \A d \in NodesOf(n.children) : PosOf(n.title) < PosOf(d.title)
              /\ \A i, j \in 1..Len(n.children) :
                    i < j => PosOf(n.children[i].title) < PosOf(n.children[j].title)
        /\ \A i, j \in 1..Len(json_data) :
              i < j => PosOf(json_data[i].title) < PosOf(json_data[j].title)

C9_Witness ==
    /\ pc = "root"
    /\ Len(full_pages_list) = 3
    /\ full_pages_list[1].has_children
    /\ full_pages_list[2].has_children

\* the elements of a forest, at any depth
RECURSIVE TagsOf(_)
TagsOf(ns) ==
    IF ns = <<>> THEN {}
    ELSE {Head(ns).tag} \cup TagsOf(Head(ns).children) \cup TagsOf(Tail(ns))

\* C10: in the output of a fragment that holds no pre, details or code
\* element, every special character copied from a text node of the fragment
\* stands right after a backslash written by the escaping engine.
C10_SourceTextIsEscaped ==
    (hpc = "rewritten" /\ TagsOf(html_content) \cap {"pre", "details", "code"} = {}) =>
        \A i \in 1..Len(mdx_output) :
            (mdx_output[i].src /\ mdx_output[i].c \in SpecialChars) =>
                (i > 1 /\ mdx_output[i - 1] = M("\\"))

\* the plain characters of a tagged string
CharsOf(s) == [i \in 1..Len(s) |-> s[i].c]

\* removing the escape characters: each backslash is dropped and the
\* character after it is kept
RECURSIVE Unescape(_)
Unescape(s) ==
    IF s = <<>> THEN <<>>
    ELSE IF s[1] = "\\" /\ Len(s) >= 2
         THEN <<s[2]>> \o Unescape(SubSeq(s, 3, Len(s)))
         ELSE <<s[1]>> \o Unescape(Tail(s))

\* C11: removing the escape characters from the result of escape_mdx_text
\* gives the text back; one backslash is added per special character, and
\* every added backslash stands before a character of the text, never
\* before another added backslash.
C11_EscapeRoundTrip ==
    escaped # <<>> =>
        LET out == escaped[1]
        IN /\ Unescape(CharsOf(out)) = CharsOf(esc_text)
           /\ Len(out) = Len(esc_text)
                 + Cardinality({i \in 1..Len(esc_text) : esc_text[i].c \in SpecialChars})
           /\ \A i \in 1..Len(out) :
                 ~out[i].src => (i < Len(out) /\ out[i + 1].src)

C11_Witness ==
    /\ escaped # <<>>
    /\ Len(esc_text) = 3
    /\ esc_text[1].c = "\\" /\ esc_text[2].c = "*" /\ esc_text[3].c = "\\"

\* the lines of a text
RECURSIVE SplitLines(_, _)
SplitLines(s, sep) ==
    IF \A i \in 1..Len(s) : s[i] # sep THEN <<s>>
    ELSE LET k == CHOOSE i \in 1..Len(s) : s[i] = sep /\ \A j \in 1..(i - 1) : s[j] # sep
         IN <<SubSeq(s, 1, k - 1)>> \o SplitLines(SubSeq(s, k + 1, Len(s)), sep)

OutputLines == IF mdx_output = <<>> THEN <<>> ELSE SplitLines(mdx_output, M("\n"))

\* the number of cells of a pipe-delimited line
CellsOfLine(line) == Cardinality({i \in 1..Len(line) : line[i] = M("|")}) - 1

\* the input table, the cells of its thead row and of its body rows
SrcTable == html_content[1]
SrcHas(tag) == \E i \in 1..Len(SrcTable.children) : SrcTable.children[i].tag = tag
SrcChild(tag) ==
    SrcTable.children[CHOOSE i \in 1..Len(SrcTable.children) : SrcTable.children[i].tag = tag]
SrcHeadCount == IF SrcHas("thead") THEN Len(SrcChild("thead").children[1].children) ELSE 0
SrcBodyRows ==
    IF SrcHas("tbody") THEN SrcChild("tbody").children
    ELSE SelectSeq(SrcTable.children, LAMBDA n : n.tag = "tr")
SrcBodyCounts ==
    LET rows == SelectSeq(SrcBodyRows, LAMBDA tr : tr.children # <<>>)
    IN [i \in 1..Len(rows) |-> Len(rows[i].children)]

\* C12 as stated: when the thead row has n >= 1 cells, every emitted line
\* (header, separator, body rows) has n cells.
C12_EveryRowHasHeaderWidth ==
    (hpc = "rewritten" /\ SrcHeadCount > 0) =>
        \A i \in 1..Len(OutputLines) : CellsOfLine(OutputLines[i]) = SrcHeadCount

\* C12 as amended: a thead row of n >= 1 cells gives a header line and a
\* separator line of n cells each; then every body row with at least one cell
\* gives one line, in order, with as many cells as the source row has, and a
\* row without cells gives no line.
C12_RowsKeepSourceWidth ==
    hpc = "rewritten" =>
        LET n == SrcHeadCount
            head == IF n > 0 THEN <<n, n>> ELSE <<>>
        IN /\ [i \in 1..Len(OutputLines) |-> CellsOfLine(OutputLines[i])]
                 = head \o SrcBodyCounts
           /\ n > 0 => OutputLines[2] = TableRow([i \in 1..n |-> <<M("---")>>])

C12_Witness ==
    /\ hpc = "rewritten"
    /\ SrcHeadCount = 2
    /\ SrcBodyCounts = <<1, 2>>
    /\ Len(SrcBodyRows) = 2

\* the indentation and the marker an entry should have: 2 * d spaces, then
\* "-" or its number, for the entries of a list and of the lists below it
RECURSIVE EntriesOf(_, _)
RECURSIVE EntriesFrom(_, _, _, _)
RECURSIVE EntriesBelow(_, _)
EntriesOf(list, d) == EntriesFrom(list.children, 1, list.tag = "ol", d)
EntriesFrom(lis, i, ordered, d) ==
    IF i > Len(lis) THEN <<>>
    ELSE <<[indent |-> 2 * d, mark |-> IF ordered THEN ToString(i) ELSE "-"]>>
            \o EntriesBelow(lis[i].children, d + 1)
            \o EntriesFrom(lis, i + 1, ordered, d)
EntriesBelow(ns, d) ==
    IF ns = <<>> THEN <<>>
    ELSE (IF Head(ns).tag \in {"ul", "ol"} THEN EntriesOf(Head(ns), d) ELSE <<>>)
            \o EntriesBelow(Tail(ns), d)

\* the number of spaces a line starts with, and what follows them
RECURSIVE LeadingSpaces(_)
LeadingSpaces(line) ==
    IF line # <<>> /\ Head(line) = M(" ") THEN 1 + LeadingSpaces(Tail(line)) ELSE 0
LinePrefix(line) ==
    LET k == LeadingSpaces(line)
    IN [indent |-> k, mark |-> IF k < Len(line) THEN line[k + 1].c ELSE ""]

\* C13: the output of a list has one line per entry of the list and of the
\* lists nested in it, in document order, and the line of an entry nested d
\* levels deep starts with exactly 2*d spaces followed by its marker.
C13_EntriesIndentedByDepth ==
    hpc = "rewritten" =>
        [i \in 1..Len(OutputLines) |-> LinePrefix(OutputLines[i])]
            = EntriesOf(html_content[1], 0)

\* the blocks of the output: the parts between blank lines
OutputBlocks == IF mdx_output = <<>> THEN <<>> ELSE SplitLines(mdx_output, M("\n\n"))

\* the characters of the text nodes that are not inside an h1, each node
\* stripped when strip is TRUE, in document order
RECURSIVE TextOutsideH1(_, _)
TextOutsideH1(ns, stripped) ==
    IF ns = <<>> THEN <<>>
    ELSE LET n == Head(ns)
         IN (IF n.tag = "h1" THEN <<>>
             ELSE IF n.tag = "#text"
                  THEN (IF stripped THEN StripWs(NodeText(n)) ELSE NodeText(n))
             ELSE TextOutsideH1(n.children, stripped))
               \o TextOutsideH1(Tail(ns), stripped)

NoSpaces(s) == SelectSeq(s, LAMBDA ch : ch.c # " ")

HeadingTagSet == {"h2", "h3", "h4", "h5", "h6"}

\* the heading line of an element: level '#', one space, its text
HeadingLine(e) ==
    [i \in 1..HeadingLevel(e.tag) |-> M("#")] \o <<M(" ")>>
        \o TextOutsideH1(e.children, TRUE)

\* the h2..h6 elements of a forest that are not inside an h1, at any depth
RECURSIVE HeadingsOf(_)
HeadingsOf(ns) ==
    IF ns = <<>> THEN {}
    ELSE (IF Head(ns).tag = "h1" THEN {}
          ELSE (IF Head(ns).tag \in HeadingTagSet THEN {Head(ns)} ELSE {})
                  \cup HeadingsOf(Head(ns).children))
            \cup HeadingsOf(Tail(ns))

\* the levels of a sequence of headings, added up
RECURSIVE SumLevels(_)
SumLevels(hs) ==
    IF hs = <<>> THEN 0 ELSE HeadingLevel(Head(hs).tag) + SumLevels(Tail(hs))

\* the text of the fragment outside its h1 elements is all the text of the
\* output, and no block is a heading of level one
H1ContributesNothing ==
    /\ NoSpaces(SelectSeq(mdx_output, LAMBDA ch : ch.src))
          = NoSpaces(TextOutsideH1(html_content, FALSE))
    /\ \A b \in 1..Len(OutputBlocks) :
          LET block == OutputBlocks[b]
          IN (block # <<>> /\ block[1] = M("#")) => (Len(block) >= 2 /\ block[2] = M("#"))

BaseLevel == IF body_node[1].kind = "type" THEN TYPE_MEMBER_LEVEL ELSE DEFAULT_HEADING_LEVEL

\* C15: a function with k scopes around it is rendered at level L + k, L
\* being the level of the outermost function: its "Parameters" heading is at
\* L + k, its "Definitions" heading one below, and none of its headings, the
\* per-parameter ones included, is shallower than L + k, the deepest level
\* of the headings of the function around it.
C15_HeadingDepthFollowsNesting ==
    rendered # <<>> =>
        \A i \in 1..Len(rendered[1]) :
            LET h == rendered[1][i]
                level == BaseLevel + h.of
            IN /\ h.title = "Parameters" => h.level = level
               /\ h.title = "Definitions" => h.level = level + 1
               /\ h.title = "param" => h.level >= level

\* C16: a version whose export JSON is absent has nothing generated for it,
\* its processing does not end with a normal return, and the process ends
\* with a non-zero status.
C16_MissingJsonEndsNonZero ==
    \A i \in 1..Len(outcomes) :
        ~JsonExists(outcomes[i].version) =>
            /\ outcomes[i].version \notin generated
            /\ outcomes[i].result # "returned"
            /\ ppc = "exited" => exit_code # <<0>>

\* C17: with --force every selected version is built, also one whose JSON
\* and assets exist; without it the versions left out are exactly those
\* whose JSON and assets both exist.
C17_ForceRebuildsEverySelected ==
    fpc = "loop" /\ fi = 1 /\ bpc = "idle" /\ calls = <<>> =>
        IF f_args.force THEN json_targets = selected
        ELSE json_targets =
                SelectSeq(selected,
                          LAMBDA v : ~(v \in json_exists /\ v \in assets_exist))

\* C18: in every call of build_json_for_ref, the pinned toolchain is
\* installed, used or uninstalled only after the system build has failed;
\* when the call has ended, an uninstall was issued exactly if the call
\* issued an install, and the pinned toolchain is installed exactly if it
\* was installed when the call began.
C18_ToolchainLeftAsFound ==
    /\ rustup_log # <<>> => system_failed
    /\ \A i \in 1..Len(calls) :
          /\ calls[i].log # <<>> => calls[i].system_failed
          /\ InSeq("uninstall", calls[i].log) <=> InSeq("install", calls[i].log)
          /\ PINNED \in calls[i].after <=> PINNED \in calls[i].before

====
